---- MODULE Spec2Model ----
(***************************************************************************)
(* Block bookkeeping of megatron/core/models/retro/data/utils.py:          *)
(* get_blocks, get_blocks_by_rank and get_sampled_blocks_by_rank, run by   *)
(* W data-parallel ranks on one shared directory.  Every rank executes     *)
(* get_sampled_blocks_by_rank once; the states in between are the returns  *)
(* of get_blocks and of get_blocks_by_rank.  The world is purely data      *)
(* parallel: torch.distributed.get_rank() and the data-parallel rank       *)
(* coincide, and the default process group holds the W ranks.              *)
(*                                                                         *)
(* Spec and FairSpec are one such call.  WriteSpec adds the callers, which *)
(* create the files of their missing blocks; AgainSpec lets the job call   *)
(* again once every rank has returned; MapSpec is BlockPathMap: from_dir   *)
(* on a directory of block files, then lookups.                            *)
(***************************************************************************)
EXTENDS Integers, Sequences, FiniteSets, TLC

\* ------------------------------------------------------------------ bounds
MaxSamples == 5
MaxBlockSize == 3
MaxW == 2
FracBits == 1
MaxCorrupt == 1
MaxLiveSamples == 3
MaxCalls == 2

\* The concrete scenario of the specification: <<n_samples, block_size>>.
ScenarioInputs == {<<250, 100>>}

\* An input whose n_samples is a power of ten with two digits.
PowerOfTenInputs == {<<10, 4>>}

\* Files of the directory that follow no block naming scheme.
ExtraFiles == {<<"j", "u", "n", "k", ".hdf5">>}

VARIABLES
    args,                  \* [n_samples, block_size, world_size, fraction]
    fs,                    \* the files of project_dir (the set of their names)
    unopenable,            \* files on which h5py.File(path, "r") raises
    invalid,               \* files on which validate(f) raises
    removed,               \* history: the files os.remove has deleted
    pc,                    \* each rank's position
    all_blocks,            \* each rank's all_blocks
    existing_block_paths,  \* rank 0: the list its cleanup loop walks
    index,                 \* rank 0: position in existing_block_paths (from 1)
    f,                     \* rank 0: the open h5py handle, or NoHandle
    arrived,               \* the ranks that have entered the barrier
    blocks,                \* each rank's result of get_blocks
    shard,                 \* each rank's rank_existing_blocks / rank_missing_blocks
    contrib,               \* the values handed to each all_reduce so far
    max_n,                 \* each rank's max_n_existing / max_n_missing
    rank_blocks,           \* each rank's result of get_blocks_by_rank
    sampled,               \* each rank's result of get_sampled_blocks_by_rank
    calls,                 \* history: the collectives each rank has called
    opened,                \* history: the handles h5py.File has returned
    closed,                \* history: the handles f.close() has closed
    created,               \* history: the files the callers have written
    call,                  \* the number of the running call
    prev,                  \* the results of the call before, or NoCall
    path_map,              \* the BlockPathMap object, or NoMap
    lookup                 \* the last BlockPathMap lookup, or NoLookup

\* The bookkeeping of the handles, of the callers and of the path map.
handle_vars == <<opened, closed>>
caller_vars == <<created, call, prev>>
map_vars == <<path_map, lookup>>

vars == <<args, fs, unopenable, invalid, removed, pc, all_blocks,
          existing_block_paths, index, f, arrived, blocks, shard, contrib,
          max_n, rank_blocks, sampled, calls, handle_vars, caller_vars,
          map_vars>>

\* ------------------------------------------------------- values and helpers
None == [absent |-> TRUE]
NoHandle == <<>>
NoCall == [returned |-> FALSE]
NoMap == [built |-> FALSE]
NoLookup == [done |-> FALSE]
Kinds == {"existing", "missing"}

Min(a, b) == IF a < b THEN a ELSE b

Ranks == 0 .. (args.world_size - 1)

SeqRange(s) == {s[i] : i \in DOMAIN s}

NonMarkers(s) == SelectSeq(s, LAMBDA b : b # None)

\* --------------------------------------------------------- block partition
\* list(range(i, n_samples, block_size))
RECURSIVE RangeFrom(_, _, _)
RangeFrom(i, n, step) ==
    IF i < n THEN <<i>> \o RangeFrom(i + step, n, step) ELSE <<>>

block_start_idxs(n, bs) == RangeFrom(0, n, bs)

block_end_idxs_unclamped(n, bs) ==
    LET starts == block_start_idxs(n, bs)
    IN  [k \in DOMAIN starts |-> starts[k] + bs]

\* [ min(n_samples, i + block_size) for i in block_start_idxs ]
block_end_idxs(n, bs) ==
    LET starts == block_start_idxs(n, bs)
    IN  [k \in DOMAIN starts |-> Min(n, starts[k] + bs)]

\* list(zip(block_start_idxs, block_end_idxs))
block_ranges(n, bs) ==
    LET starts == block_start_idxs(n, bs)
        ends == block_end_idxs(n, bs)
    IN  [k \in DOMAIN starts |-> <<starts[k], ends[k]>>]

\* ------------------------------------------------------------- block paths
DigitChar == <<"0", "1", "2", "3", "4", "5", "6", "7", "8", "9">>

\* str(i) for i >= 0
RECURSIVE Str(_)
Str(i) == IF i < 10 THEN <<DigitChar[i + 1]>>
          ELSE Str(i \div 10) \o <<DigitChar[(i % 10) + 1]>>

\* s.zfill(width): pads on the left, never truncates
RECURSIVE zfill(_, _)
zfill(s, width) == IF Len(s) >= width THEN s ELSE zfill(<<"0">> \o s, width)

\* ceil(log(n) / log(10)): the least k with 10^k >= n
RECURSIVE CeilLog10From(_, _, _)
CeilLog10From(n, k, pow) ==
    IF pow >= n THEN k ELSE CeilLog10From(n, k + 1, pow * 10)

n_digits_short(n) == CeilLog10From(n, 0, 1)

n_digits(n) == CeilLog10From(n, 0, 1) + 1

BlockPathUnpadded(r, width) == Str(r[1]) \o <<"-">> \o Str(r[2]) \o <<".hdf5">>

\* "%s-%s.hdf5" % (start, end), both zero-filled to `width`; project_dir is
\* the same for every path and is left out
BlockPath(r, width) ==
    zfill(Str(r[1]), width) \o <<"-">> \o zfill(Str(r[2]), width) \o <<".hdf5">>

AllBlocks(n, bs) ==
    LET rgs == block_ranges(n, bs)
        width == n_digits(n)
    IN  [k \in DOMAIN rgs |-> [range |-> rgs[k], path |-> BlockPath(rgs[k], width)]]

all_block_range_set(blks) == {blks[k].range : k \in DOMAIN blks}

all_block_path_set(blks) == {blks[k].path : k \in DOMAIN blks}

\* ------------------------------------------------------------ the directory
\* os.path.exists(path)
Exists(files, path) == path \in files

ExistingBlockPaths(blks, files) ==
    LET ex == SelectSeq(blks, LAMBDA b : Exists(files, b.path))
    IN  [k \in DOMAIN ex |-> ex[k].path]

os_remove_forgotten(files, path) == files

\* os.remove(path)
os_remove(files, path) == files \ {path}

\* h5py.File(path, "r") returns a handle (does not raise)
CanOpen(path) == path \notin unopenable

ValidateAlwaysRaises(path) == TRUE

\* validate(f) raises on the file behind the handle
ValidateRaises(path) == path \in invalid

ExistingBlocksStale(blks, files) ==
    SelectSeq(blks, LAMBDA b : Exists(files \cup removed, b.path))

ExistingBlocks(blks, files) ==
    SelectSeq(blks, LAMBDA b : Exists(files, b.path))

MissingBlocks(blks, files) ==
    SelectSeq(blks, LAMBDA b : ~Exists(files, b.path))

\* ---------------------------------------------------------------- sharding
\* Python's list[start:len(list):step]
RECURSIVE SliceFrom(_, _, _)
SliceFrom(list, start, step) ==
    IF start >= Len(list) THEN <<>>
    ELSE <<list[start + 1]>> \o SliceFrom(list, start + step, step)

RankSliceFromZero(list, rank, world_size) == SliceFrom(list, 0, world_size)

RankSliceContiguous(list, rank, world_size) ==
    LET chunk == (Len(list) + world_size - 1) \div world_size
    IN  SubSeq(list, rank * chunk + 1, Min(Len(list), (rank + 1) * chunk))

RankSlice(list, rank, world_size) == SliceFrom(list, rank, world_size)

SetMax(S) == CHOOSE m \in S : \A x \in S : x <= m

SetSum(vals) ==
    LET RECURSIVE Sum(_)
        Sum(D) == IF D = {} THEN 0
                  ELSE LET d == CHOOSE d \in D : TRUE
                       IN  vals[d] + Sum(D \ {d})
    IN  Sum(DOMAIN vals)

AllReduceSum(vals) == SetSum(vals)

\* torch.distributed.all_reduce(n_tensor, op=ReduceOp.MAX)
AllReduceMax(vals) == SetMax({vals[r] : r \in DOMAIN vals})

\* list += [None] * (max_n - len(list)); a negative count appends nothing
PadTo(list, n) == list \o [i \in 1 .. (n - Len(list)) |-> None]

\* ---------------------------------------------------------------- sampling
Fractions == {<<k, 2 ^ FracBits>> : k \in 1 .. (2 ^ FracBits)}

n_blocks_sample_floor(fraction, len) == (fraction[1] * len) \div fraction[2]

\* int(np.ceil(fraction * len(_blocks))); fraction = fraction[1] / fraction[2],
\* a dyadic rational, so the floating-point product is exact
n_blocks_sample(fraction, len) ==
    (fraction[1] * len + fraction[2] - 1) \div fraction[2]

\* the orders np.random.shuffle can leave the list in
Shuffles(s) ==
    LET n == Len(s)
        perms == {p \in [1 .. n -> 1 .. n] : \A i, j \in 1 .. n : p[i] = p[j] => i = j}
    IN  {[i \in 1 .. n |-> s[p[i]]] : p \in perms}

SampleFromUnpadded(shuffled, n) == SubSeq(shuffled, 1, Min(n, Len(shuffled)))

\* sampled_blocks[:n] padded with None to length n
SampleFrom(shuffled, n) == PadTo(SubSeq(shuffled, 1, Min(n, Len(shuffled))), n)

\* sample_blocks(_blocks): the lists it can return, one per outcome of the shuffle
sample_blocks(list, fraction) ==
    {SampleFrom(shuffled, n_blocks_sample(fraction, Len(list))) :
        shuffled \in Shuffles(NonMarkers(list))}

\* -------------------------------------------------------------- BlockPathMap
\* The code points of the characters of a file name (the extension is one
\* token, which begins with ".").
CharCode ==
    ("-" :> 45) @@ (".hdf5" :> 46) @@
    [c \in SeqRange(DigitChar) |-> 47 + (CHOOSE d \in 1 .. 10 : DigitChar[d] = c)] @@
    ("j" :> 106) @@ ("k" :> 107) @@ ("n" :> 110) @@ ("u" :> 117)

\* Python's order of str: the first differing character decides, and a proper
\* prefix comes first.
LexLess(a, b) ==
    \/ /\ Len(a) < Len(b)
       /\ \A i \in 1 .. Len(a) : a[i] = b[i]
    \/ \E k \in 1 .. Min(Len(a), Len(b)) :
          /\ \A i \in 1 .. (k - 1) : a[i] = b[i]
          /\ CharCode[a[k]] < CharCode[b[k]]

RECURSIVE sorted(_)
sorted(files) ==
    IF files = {} THEN <<>>
    ELSE LET first == CHOOSE p \in files : \A q \in files \ {p} : LexLess(p, q)
         IN  <<first>> \o sorted(files \ {first})

\* glob.glob(dir + "/*.hdf5"): the files of the directory with that extension.
glob(files) == {p \in files : Len(p) > 0 /\ p[Len(p)] = ".hdf5"}

\* os.path.splitext(os.path.basename(block_path))[0]
splitext(path) == SubSeq(path, 1, Len(path) - 1)

RECURSIVE split(_, _)
split(s, sep) ==
    IF \A i \in DOMAIN s : s[i] # sep THEN <<s>>
    ELSE LET k == CHOOSE i \in DOMAIN s :
                      s[i] = sep /\ \A j \in 1 .. (i - 1) : s[j] # sep
         IN  <<SubSeq(s, 1, k - 1)>> \o split(SubSeq(s, k + 1, Len(s)), sep)

\* The strings int() accepts among the names of the directory.
IsDecimal(s) == Len(s) > 0 /\ \A i \in DOMAIN s : s[i] \in SeqRange(DigitChar)

RECURSIVE int(_)
int(s) ==
    IF Len(s) = 0 THEN 0
    ELSE 10 * int(SubSeq(s, 1, Len(s) - 1))
         + (CHOOSE d \in 0 .. 9 : DigitChar[d + 1] = s[Len(s)])

\* Line 260: start_idx, end_idx = [int(i) for i in name.split("-")] succeeds.
NameParses(path) ==
    LET parts == split(splitext(path), "-")
    IN  Len(parts) = 2 /\ IsDecimal(parts[1]) /\ IsDecimal(parts[2])

StartIdx(path) == int(split(splitext(path), "-")[1])
EndIdx(path) == int(split(splitext(path), "-")[2])

RECURSIVE ScanPaths(_, _, _)
ScanPaths(block_paths, map, max_idx) ==
    IF block_paths = <<>> THEN [block_path_map |-> map, max_idx |-> max_idx]
    ELSE LET block_path == Head(block_paths)
             bigger == IF EndIdx(block_path) > max_idx THEN EndIdx(block_path)
                       ELSE max_idx
         IN  ScanPaths(Tail(block_paths),
                       (StartIdx(block_path) :> block_path) @@ map, bigger)

\* Lines 255-263: BlockPathMap.__init__; a name that is not "<int>-<int>"
\* raises ValueError.
BlockPathMapInit(block_paths, block_size) ==
    IF \E k \in DOMAIN block_paths : ~NameParses(block_paths[k])
    THEN [built |-> FALSE, error |-> "ValueError"]
    ELSE LET scan == ScanPaths(block_paths, <<>>, 0)
         IN  [built |-> TRUE, block_path_map |-> scan.block_path_map,
              max_idx |-> scan.max_idx, block_size |-> block_size]

block_start_idx_ceil(idx, block_size) ==
    block_size * ((idx + block_size - 1) \div block_size)

\* Line 270: block_start_idx = self.block_size * (idx // self.block_size)
block_start_idx(idx, block_size) == block_size * (idx \div block_size)

\* Lines 268-272: BlockPathMap.__getitem__; a start index that is no key of
\* the dictionary raises KeyError.
getitem(self, idx) ==
    LET start == block_start_idx(idx, self.block_size)
    IN  IF start \in DOMAIN self.block_path_map
        THEN [done |-> TRUE, idx |-> idx, raised |-> FALSE,
              path |-> self.block_path_map[start]]
        ELSE [done |-> TRUE, idx |-> idx, raised |-> TRUE, path |-> <<>>]

\* ------------------------------------------------------------ initial state
Inputs ==
    {<<n, b>> : n \in 1 .. MaxSamples, b \in 1 .. MaxBlockSize}
        \cup ScenarioInputs \cup PowerOfTenInputs

\* The names the block files of a directory can have.
BlockFiles(n, bs) == {b.path : b \in SeqRange(AllBlocks(n, bs))}

Init ==
    /\ args \in {[n_samples |-> i[1], block_size |-> i[2], world_size |-> w,
                  fraction |-> fr] :
                    i \in Inputs, w \in 1 .. MaxW, fr \in Fractions}
    /\ fs \in SUBSET (BlockFiles(args.n_samples, args.block_size) \cup ExtraFiles)
    /\ unopenable \in SUBSET (fs \ ExtraFiles)
    /\ invalid \in SUBSET ((fs \ ExtraFiles) \ unopenable)
    /\ Cardinality(unopenable \cup invalid) <= MaxCorrupt
    /\ removed = {}
    /\ pc = [r \in Ranks |-> "start"]
    /\ all_blocks = [r \in Ranks |-> <<>>]
    /\ existing_block_paths = <<>>
    /\ index = 0
    /\ f = NoHandle
    /\ arrived = {}
    /\ blocks = [r \in Ranks |-> [existing |-> <<>>, missing |-> <<>>]]
    /\ shard = [r \in Ranks |-> [existing |-> <<>>, missing |-> <<>>]]
    /\ contrib = [existing |-> <<>>, missing |-> <<>>]
    /\ max_n = [r \in Ranks |-> [existing |-> 0, missing |-> 0]]
    /\ rank_blocks = [r \in Ranks |-> [n_existing_world |-> 0, n_missing_world |-> 0,
                                       existing |-> <<>>, missing |-> <<>>]]
    /\ sampled = [r \in Ranks |-> [n_existing_world |-> 0, n_missing_world |-> 0,
                                   existing |-> <<>>, missing |-> <<>>]]
    /\ calls = [r \in Ranks |-> <<>>]
    /\ opened = <<>>
    /\ closed = <<>>
    /\ created = {}
    /\ call = 1
    /\ prev = NoCall
    /\ path_map = NoMap
    /\ lookup = NoLookup

\* ---------------------------------------------------------------- get_blocks
\* Lines 101-124: the block list; rank 0 also lists the block files present.
Start(r) ==
    /\ r \in Ranks
    /\ pc[r] = "start"
    /\ all_blocks' = [all_blocks EXCEPT ![r] = AllBlocks(args.n_samples, args.block_size)]
    /\ IF r = 0
       THEN /\ existing_block_paths' = ExistingBlockPaths(all_blocks'[r], fs)
            /\ index' = 1
            /\ pc' = [pc EXCEPT ![r] = "loop"]
       ELSE /\ pc' = [pc EXCEPT ![r] = "barrier"]
            /\ UNCHANGED <<existing_block_paths, index>>
    /\ UNCHANGED <<args, fs, unopenable, invalid, removed, f, arrived, blocks,
                   shard, contrib, max_n, rank_blocks, sampled, calls>>
    /\ UNCHANGED <<handle_vars, caller_vars, map_vars>>

\* Lines 125-134: the assertion, then h5py.File; a failed open removes the file.
OpenFile ==
    /\ pc[0] = "loop"
    /\ index <= Len(existing_block_paths)
    /\ LET path == existing_block_paths[index] IN
       IF path \notin all_block_path_set(all_blocks[0])
       THEN /\ pc' = [pc EXCEPT ![0] = "UnexpectedFileError"]
            /\ UNCHANGED <<fs, removed, f, index, opened>>
       ELSE IF CanOpen(path)
            THEN /\ f' = path
                 /\ opened' = Append(opened, path)
                 /\ pc' = [pc EXCEPT ![0] = "validate"]
                 /\ UNCHANGED <<fs, removed, index>>
            ELSE /\ fs' = os_remove(fs, path)
                 /\ removed' = removed \cup {path}
                 /\ index' = index + 1
                 /\ UNCHANGED <<f, pc, opened>>
    /\ UNCHANGED <<args, unopenable, invalid, all_blocks, existing_block_paths,
                   arrived, blocks, shard, contrib, max_n, rank_blocks, sampled,
                   calls>>
    /\ UNCHANGED <<closed, caller_vars, map_vars>>

\* Lines 136-139: validate(f); a raise removes the file.
Validate ==
    /\ pc[0] = "validate"
    /\ IF ValidateRaises(f)
       THEN /\ fs' = os_remove(fs, f)
            /\ removed' = removed \cup {f}
       ELSE UNCHANGED <<fs, removed>>
    /\ pc' = [pc EXCEPT ![0] = "close"]
    /\ UNCHANGED <<args, unopenable, invalid, all_blocks, existing_block_paths,
                   index, f, arrived, blocks, shard, contrib, max_n, rank_blocks,
                   sampled, calls>>
    /\ UNCHANGED <<handle_vars, caller_vars, map_vars>>

f_close_unless_raised(handles, handle) ==
    IF ValidateRaises(handle) THEN handles ELSE Append(handles, handle)

\* Line 141: f.close() sits in the finally clause: it runs whether validate
\* returned or raised.
f_close(handles, handle) == Append(handles, handle)

\* Lines 140-141: finally f.close(), then the next file.
Close ==
    /\ pc[0] = "close"
    /\ closed' = f_close(closed, f)
    /\ f' = NoHandle
    /\ index' = index + 1
    /\ pc' = [pc EXCEPT ![0] = "loop"]
    /\ UNCHANGED <<args, fs, unopenable, invalid, removed, all_blocks,
                   existing_block_paths, arrived, blocks, shard, contrib, max_n,
                   rank_blocks, sampled, calls>>
    /\ UNCHANGED <<opened, caller_vars, map_vars>>

\* Line 125: the loop is exhausted.
LoopExit ==
    /\ pc[0] = "loop"
    /\ index > Len(existing_block_paths)
    /\ pc' = [pc EXCEPT ![0] = "barrier"]
    /\ UNCHANGED <<args, fs, unopenable, invalid, removed, all_blocks,
                   existing_block_paths, index, f, arrived, blocks, shard, contrib,
                   max_n, rank_blocks, sampled, calls>>
    /\ UNCHANGED <<handle_vars, caller_vars, map_vars>>

\* Line 144: torch.distributed.barrier() is entered ...
BarrierEnter(r) ==
    /\ r \in Ranks
    /\ pc[r] = "barrier"
    /\ arrived' = arrived \cup {r}
    /\ calls' = [calls EXCEPT ![r] = Append(@, "barrier")]
    /\ pc' = [pc EXCEPT ![r] = "in_barrier"]
    /\ UNCHANGED <<args, fs, unopenable, invalid, removed, all_blocks,
                   existing_block_paths, index, f, blocks, shard, contrib, max_n,
                   rank_blocks, sampled>>
    /\ UNCHANGED <<handle_vars, caller_vars, map_vars>>

BarrierOpenEarly(who) == who # {}

\* ... and returns once every rank of the group has entered it.
BarrierOpen(who) == who = Ranks

BarrierExit(r) ==
    /\ r \in Ranks
    /\ pc[r] = "in_barrier"
    /\ BarrierOpen(arrived)
    /\ pc' = [pc EXCEPT ![r] = "collect_existing"]
    /\ UNCHANGED <<args, fs, unopenable, invalid, removed, all_blocks,
                   existing_block_paths, index, f, arrived, blocks, shard, contrib,
                   max_n, rank_blocks, sampled, calls>>
    /\ UNCHANGED <<handle_vars, caller_vars, map_vars>>

\* Line 148: existing=[ b for b in all_blocks if os.path.exists(b["path"]) ]
CollectExisting(r) ==
    /\ r \in Ranks
    /\ pc[r] = "collect_existing"
    /\ blocks' = [blocks EXCEPT ![r].existing = ExistingBlocks(all_blocks[r], fs)]
    /\ pc' = [pc EXCEPT ![r] = "collect_missing"]
    /\ UNCHANGED <<args, fs, unopenable, invalid, removed, all_blocks,
                   existing_block_paths, index, f, arrived, shard, contrib, max_n,
                   rank_blocks, sampled, calls>>
    /\ UNCHANGED <<handle_vars, caller_vars, map_vars>>

\* Line 149: missing=[ b for b in all_blocks if not os.path.exists(b["path"]) ]
CollectMissing(r) ==
    /\ r \in Ranks
    /\ pc[r] = "collect_missing"
    /\ blocks' = [blocks EXCEPT ![r].missing = MissingBlocks(all_blocks[r], fs)]
    /\ pc' = [pc EXCEPT ![r] = "shard"]
    /\ UNCHANGED <<args, fs, unopenable, invalid, removed, all_blocks,
                   existing_block_paths, index, f, arrived, shard, contrib, max_n,
                   rank_blocks, sampled, calls>>
    /\ UNCHANGED <<handle_vars, caller_vars, map_vars>>

\* -------------------------------------------------------- get_blocks_by_rank
\* Lines 173-176: this rank's interleaved slices of the two global lists.
Shard(r) ==
    /\ r \in Ranks
    /\ pc[r] = "shard"
    /\ shard' = [shard EXCEPT ![r] =
                    [existing |-> RankSlice(blocks[r].existing, r, args.world_size),
                     missing |-> RankSlice(blocks[r].missing, r, args.world_size)]]
    /\ pc' = [pc EXCEPT ![r] = "reduce_existing"]
    /\ UNCHANGED <<args, fs, unopenable, invalid, removed, all_blocks,
                   existing_block_paths, index, f, arrived, blocks, contrib, max_n,
                   rank_blocks, sampled, calls>>
    /\ UNCHANGED <<handle_vars, caller_vars, map_vars>>

\* Lines 180-186: get_world_max(n) hands n to the all_reduce ...
AllReduceEnter(r, kind) ==
    /\ r \in Ranks
    /\ pc[r] = "reduce_" \o kind
    /\ contrib' = [contrib EXCEPT ![kind] = @ @@ (r :> Len(shard[r][kind]))]
    /\ calls' = [calls EXCEPT ![r] = Append(@, "all_reduce_" \o kind)]
    /\ pc' = [pc EXCEPT ![r] = "wait_" \o kind]
    /\ UNCHANGED <<args, fs, unopenable, invalid, removed, all_blocks,
                   existing_block_paths, index, f, arrived, blocks, shard, max_n,
                   rank_blocks, sampled>>
    /\ UNCHANGED <<handle_vars, caller_vars, map_vars>>

AllReduceCompleteEarly(who) == who # {}

\* ... which returns the maximum once every rank has handed in its value.
AllReduceComplete(who) == who = Ranks

AllReduceExit(r, kind) ==
    /\ r \in Ranks
    /\ pc[r] = "wait_" \o kind
    /\ AllReduceComplete(DOMAIN contrib[kind])
    /\ max_n' = [max_n EXCEPT ![r][kind] = AllReduceMax(contrib[kind])]
    /\ pc' = [pc EXCEPT ![r] = IF kind = "existing" THEN "reduce_missing" ELSE "pad"]
    /\ UNCHANGED <<args, fs, unopenable, invalid, removed, all_blocks,
                   existing_block_paths, index, f, arrived, blocks, shard, contrib,
                   rank_blocks, sampled, calls>>
    /\ UNCHANGED <<handle_vars, caller_vars, map_vars>>

\* Lines 188-199: pad both lists with None and return the namespace.
Pad(r) ==
    /\ r \in Ranks
    /\ pc[r] = "pad"
    /\ rank_blocks' = [rank_blocks EXCEPT ![r] =
            [n_existing_world |-> Len(blocks[r].existing),
             n_missing_world |-> Len(blocks[r].missing),
             existing |-> PadTo(shard[r].existing, max_n[r].existing),
             missing |-> PadTo(shard[r].missing, max_n[r].missing)]]
    /\ pc' = [pc EXCEPT ![r] = "sample"]
    /\ UNCHANGED <<args, fs, unopenable, invalid, removed, all_blocks,
                   existing_block_paths, index, f, arrived, blocks, shard, contrib,
                   max_n, sampled, calls>>
    /\ UNCHANGED <<handle_vars, caller_vars, map_vars>>

\* ------------------------------------------------ get_sampled_blocks_by_rank
\* Lines 220-235: blocks.existing and blocks.missing are replaced by samples.
SampleBlocks(r) ==
    /\ r \in Ranks
    /\ pc[r] = "sample"
    /\ \E e \in sample_blocks(rank_blocks[r].existing, args.fraction) :
       \E m \in sample_blocks(rank_blocks[r].missing, args.fraction) :
          sampled' = [sampled EXCEPT ![r] =
                         [rank_blocks[r] EXCEPT !.existing = e, !.missing = m]]
    /\ pc' = [pc EXCEPT ![r] = "done"]
    /\ UNCHANGED <<args, fs, unopenable, invalid, removed, all_blocks,
                   existing_block_paths, index, f, arrived, blocks, shard, contrib,
                   max_n, rank_blocks, calls>>
    /\ UNCHANGED <<handle_vars, caller_vars, map_vars>>

\* ------------------------------------------------------------- the callers
\* A rank that get_blocks_by_rank has returned to writes the file of one of
\* the missing blocks of its shard.
CreateFile(r) ==
    /\ r \in Ranks
    /\ pc[r] \in {"sample", "done"}
    /\ \E b \in SeqRange(NonMarkers(rank_blocks[r].missing)) :
          /\ b.path \notin fs
          /\ fs' = fs \cup {b.path}
          /\ created' = created \cup {b.path}
    /\ UNCHANGED <<args, unopenable, invalid, removed, pc, all_blocks,
                   existing_block_paths, index, f, arrived, blocks, shard, contrib,
                   max_n, rank_blocks, sampled, calls, call, prev>>
    /\ UNCHANGED <<handle_vars, map_vars>>

\* Every rank has returned, and the job calls again, on the same arguments
\* and the directory as the call before left it: the results of that call
\* are kept aside and every rank is back at the entry.
Recall ==
    /\ \A r \in Ranks : pc[r] = "done"
    /\ call < MaxCalls
    /\ call' = call + 1
    /\ prev' = [returned |-> TRUE, fs |-> fs, removed |-> removed, blocks |-> blocks]
    /\ removed' = {}
    /\ pc' = [r \in Ranks |-> "start"]
    /\ all_blocks' = [r \in Ranks |-> <<>>]
    /\ existing_block_paths' = <<>>
    /\ index' = 0
    /\ arrived' = {}
    /\ blocks' = [r \in Ranks |-> [existing |-> <<>>, missing |-> <<>>]]
    /\ shard' = [r \in Ranks |-> [existing |-> <<>>, missing |-> <<>>]]
    /\ contrib' = [existing |-> <<>>, missing |-> <<>>]
    /\ max_n' = [r \in Ranks |-> [existing |-> 0, missing |-> 0]]
    /\ rank_blocks' = [r \in Ranks |-> [n_existing_world |-> 0, n_missing_world |-> 0,
                                        existing |-> <<>>, missing |-> <<>>]]
    /\ sampled' = [r \in Ranks |-> [n_existing_world |-> 0, n_missing_world |-> 0,
                                    existing |-> <<>>, missing |-> <<>>]]
    /\ calls' = [r \in Ranks |-> <<>>]
    /\ opened' = <<>>
    /\ closed' = <<>>
    /\ UNCHANGED <<args, fs, unopenable, invalid, f, created, map_vars>>

\* --------------------------------------------------- BlockPathMap, in use
\* Lines 249-253: BlockPathMap.from_dir(dir, block_size) on the directory.
from_dir(block_size) ==
    /\ path_map = NoMap
    /\ path_map' = BlockPathMapInit(sorted(glob(fs)), block_size)
    /\ UNCHANGED <<args, fs, unopenable, invalid, removed, pc, all_blocks,
                   existing_block_paths, index, f, arrived, blocks, shard, contrib,
                   max_n, rank_blocks, sampled, calls, lookup>>
    /\ UNCHANGED <<handle_vars, caller_vars>>

\* Lines 268-272: map[idx].
GetItem(idx) ==
    /\ path_map.built
    /\ idx <= args.n_samples + path_map.block_size
    /\ lookup' = getitem(path_map, idx)
    /\ UNCHANGED <<args, fs, unopenable, invalid, removed, pc, all_blocks,
                   existing_block_paths, index, f, arrived, blocks, shard, contrib,
                   max_n, rank_blocks, sampled, calls, path_map>>
    /\ UNCHANGED <<handle_vars, caller_vars>>

\* ------------------------------------------------------------ specifications
RankIds == 0 .. (MaxW - 1)

Next ==
    \/ OpenFile
    \/ Validate
    \/ Close
    \/ LoopExit
    \/ \E r \in RankIds : Start(r)
    \/ \E r \in RankIds : BarrierEnter(r)
    \/ \E r \in RankIds : BarrierExit(r)
    \/ \E r \in RankIds : CollectExisting(r)
    \/ \E r \in RankIds : CollectMissing(r)
    \/ \E r \in RankIds : Shard(r)
    \/ \E r \in RankIds : \E kind \in Kinds : AllReduceEnter(r, kind)
    \/ \E r \in RankIds : \E kind \in Kinds : AllReduceExit(r, kind)
    \/ \E r \in RankIds : Pad(r)
    \/ \E r \in RankIds : SampleBlocks(r)

Spec == Init /\ [][Next]_vars

\* The same program on the inputs of at most MaxLiveSamples samples (and the
\* scenario), for the properties that hold of whole behaviours.
LiveInit ==
    /\ Init
    /\ \/ args.n_samples <= MaxLiveSamples
       \/ <<args.n_samples, args.block_size>> \in ScenarioInputs

\* The ranks are running processes: while some rank can take a step, a step
\* is eventually taken.
FairSpec == LiveInit /\ [][Next]_vars /\ WF_vars(Next)

\* The ranks with their callers: a rank that has its shard starts to write
\* the files of its missing blocks while the other ranks are still running.
WriteNext ==
    \/ Next
    \/ \E r \in RankIds : CreateFile(r)

WriteSpec == LiveInit /\ [][WriteNext]_vars

\* The job calls up to MaxCalls times in a row, nothing else writing to the
\* directory in between.
AgainNext ==
    \/ Next
    \/ Recall

AgainSpec == LiveInit /\ [][AgainNext]_vars

\* A retrieval process: it builds a BlockPathMap on a directory that holds
\* some of the block files of its inputs, and looks indexes up.
BlockSizes == {i[2] : i \in Inputs}

\* The indexes looked up: all the small ones, and around every block boundary
\* of the scenario.
LookupIdxs ==
    (-MaxBlockSize .. (MaxSamples + MaxBlockSize))
        \cup UNION {{i[1] - 1, i[1], i[1] + 1, i[2] - 1, i[2], i[1] + i[2] - 1,
                      i[1] + i[2], i[1] - (i[1] % i[2]), (2 * i[2]) - 1, 2 * i[2]} :
                        i \in ScenarioInputs}

MapInit ==
    /\ Init
    /\ args.world_size = 1
    /\ args.fraction[1] = args.fraction[2]
    /\ unopenable = {}
    /\ invalid = {}

MapNext ==
    \/ \E block_size \in BlockSizes : from_dir(block_size)
    \/ \E idx \in LookupIdxs : GetItem(idx)

MapSpec == MapInit /\ [][MapNext]_vars

\* ------------------------------------------------------------------- claims
CleanupPcs == {"start", "loop", "validate", "close"}

\* Positions after torch.distributed.barrier() has returned.
AfterBarrier ==
    {"collect_existing", "collect_missing", "shard", "reduce_existing",
     "wait_existing", "reduce_missing", "wait_missing", "pad", "sample", "done"}

\* Positions at which get_blocks has returned its namespace.
Collected == AfterBarrier \ {"collect_existing", "collect_missing"}

\* Positions at which get_blocks_by_rank has returned its namespace.
Padded == {"sample", "done"}

CeilDiv(a, b) == (a + b - 1) \div b

Ranges(list) == [k \in DOMAIN list |-> list[k].range]

\* C1: no rank is past the barrier (where the existence checks of lines
\* 148-149 are) while rank 0 is still in its cleanup loop, so every os.remove
\* of rank 0 precedes every post-barrier existence check.
C1_CleanupBeforeInspection ==
    \A r \in Ranks : pc[r] \in AfterBarrier => pc[0] \notin CleanupPcs

C1_Witness ==
    \E r \in Ranks : r # 0 /\ pc[r] = "collect_missing" /\ removed # {}

\* C2: the result of get_blocks on a rank partitions all_blocks: existing and
\* missing are disjoint, together they are all_blocks, a block is existing iff
\* its file is in the directory after the cleanup, and both lists ascend.
C2_Partition ==
    \A r \in Ranks : pc[r] \in Collected =>
        LET all == all_blocks[r]
            ex == blocks[r].existing
            mi == blocks[r].missing
            Ascending(l) == \A i, j \in DOMAIN l : i < j => l[i].range[1] < l[j].range[1]
        IN  /\ SeqRange(ex) \cap SeqRange(mi) = {}
            /\ SeqRange(ex) \cup SeqRange(mi) = SeqRange(all)
            /\ Len(ex) + Len(mi) = Len(all)
            /\ \A b \in SeqRange(all) : b \in SeqRange(ex) <=> b.path \in fs
            /\ Ascending(ex)
            /\ Ascending(mi)

C2_Witness ==
    \E r \in Ranks : /\ r # 0
                     /\ pc[r] \in Collected
                     /\ Len(blocks[r].existing) >= 2
                     /\ Len(blocks[r].missing) >= 2
                     /\ removed # {}

\* C3: with a file in the directory that is no computed block path, rank 0
\* does not return a block collection from get_blocks.
C3_ExtraneousFileIsFatal ==
    (\E p \in fs : p \notin all_block_path_set(all_blocks[0]))
        => pc[0] \notin Collected

\* C4: a block file present at the start that cannot be opened or fails
\* validate is deleted, no error ends rank 0, and on every rank the block is
\* in missing and not in existing.
C4_CorruptFileHealed ==
    /\ pc[0] # "UnexpectedFileError"
    /\ \A r \in Ranks : pc[r] \in Collected =>
          \A b \in SeqRange(all_blocks[r]) :
              (b.path \in fs \cup removed /\ b.path \in unopenable \cup invalid) =>
                  /\ b.path \notin fs
                  /\ b.path \in removed
                  /\ b \in SeqRange(blocks[r].missing)
                  /\ b \notin SeqRange(blocks[r].existing)

C4_Witness ==
    \E r \in Ranks : /\ r # 0
                     /\ pc[r] \in Collected
                     /\ \E b \in SeqRange(blocks[r].missing) : b.path \in removed

\* C5: the block ranges tile [0, n_samples): they start at 0, each starts
\* where the previous one ends, the last ends at n_samples, none is empty, all
\* but the last have length block_size and the last at most block_size.
C5_Tiling ==
    \A r \in Ranks : pc[r] # "start" =>
        LET rg == Ranges(all_blocks[r])
            L == Len(rg)
        IN  /\ L >= 1
            /\ rg[1][1] = 0
            /\ \A k \in 1 .. (L - 1) : rg[k + 1][1] = rg[k][2]
            /\ rg[L][2] = args.n_samples
            /\ \A k \in 1 .. L : rg[k][1] < rg[k][2]
            /\ \A k \in 1 .. (L - 1) : rg[k][2] - rg[k][1] = args.block_size
            /\ rg[L][2] - rg[L][1] <= args.block_size

C5_Witness ==
    \E r \in Ranks :
        /\ pc[r] # "start"
        /\ Len(all_blocks[r]) >= 2
        /\ LET last == all_blocks[r][Len(all_blocks[r])].range
           IN  last[2] - last[1] < args.block_size

\* C6: once get_blocks_by_rank has returned on ranks r1 and r2, their lists
\* have equal lengths and share no non-marker entry; once it has returned on
\* every rank, the non-marker entries of all ranks are exactly the global
\* list, each entry once.  Separately for existing and missing.
C6_ShardsPartition ==
    \A kind \in Kinds :
        /\ \A r1, r2 \in Ranks : (pc[r1] \in Padded /\ pc[r2] \in Padded /\ r1 # r2) =>
              /\ Len(rank_blocks[r1][kind]) = Len(rank_blocks[r2][kind])
              /\ SeqRange(NonMarkers(rank_blocks[r1][kind]))
                    \cap SeqRange(NonMarkers(rank_blocks[r2][kind])) = {}
        /\ (\A r \in Ranks : pc[r] \in Padded) =>
              \A r \in Ranks :
                  LET nm(q) == NonMarkers(rank_blocks[q][kind])
                      global == SeqRange(blocks[r][kind])
                  IN  /\ UNION {SeqRange(nm(q)) : q \in Ranks} = global
                      /\ \A b \in global :
                            Cardinality({<<q, i>> \in Ranks \X (1 .. Len(blocks[r][kind])) :
                                            i <= Len(nm(q)) /\ nm(q)[i] = b}) = 1

C6_Witness ==
    /\ args.world_size >= 2
    /\ \A r \in Ranks : pc[r] \in Padded
    /\ Len(blocks[0].existing) >= 3
    /\ \E r \in Ranks : None \in SeqRange(rank_blocks[r].existing)

\* C7: rank r's list is list[r::W]: its k-th non-marker entry (k from 0) is
\* element r + k*W of the global list, and it holds every such element.  In
\* the scenario n_samples=250, block_size=100, W=2, existing=[(0,100),(200,250)]
\* rank 0 gets [(0,100)] and rank 1 gets [(200,250)].
C7_Interleaved ==
    /\ \A r \in Ranks : pc[r] \in Padded =>
          \A kind \in Kinds :
              LET nm == NonMarkers(rank_blocks[r][kind])
                  global == blocks[r][kind]
                  W == args.world_size
              IN  /\ Len(nm) = Cardinality({i \in 0 .. (Len(global) - 1) : i % W = r})
                  /\ \A k \in 0 .. (Len(nm) - 1) : nm[k + 1] = global[r + k * W + 1]
    /\ \A r \in Ranks :
          ( /\ <<args.n_samples, args.block_size>> = <<250, 100>>
            /\ args.world_size = 2
            /\ pc[r] \in Padded
            /\ Ranges(blocks[r].existing) = << <<0, 100>>, <<200, 250>> >> )
          => Ranges(NonMarkers(rank_blocks[r].existing))
                = IF r = 0 THEN << <<0, 100>> >> ELSE << <<200, 250>> >>

C7_Witness ==
    /\ <<args.n_samples, args.block_size>> = <<250, 100>>
    /\ args.world_size = 2
    /\ \A r \in Ranks : /\ pc[r] \in Padded
                        /\ Ranges(blocks[r].existing) = << <<0, 100>>, <<200, 250>> >>
    /\ Ranges(rank_blocks[0].existing) = << <<0, 100>> >>
    /\ Ranges(rank_blocks[1].existing) = << <<200, 250>> >>

\* C8: after padding a rank's existing list has length ceil(n_existing_world / W)
\* and its missing list length ceil(n_missing_world / W); None occurs only as
\* a suffix and at most once in a list.
C8_PaddedLength ==
    \A r \in Ranks : pc[r] \in Padded =>
        /\ Len(rank_blocks[r].existing)
              = CeilDiv(rank_blocks[r].n_existing_world, args.world_size)
        /\ Len(rank_blocks[r].missing)
              = CeilDiv(rank_blocks[r].n_missing_world, args.world_size)
        /\ rank_blocks[r].n_existing_world + rank_blocks[r].n_missing_world
              = Len(all_blocks[r])
        /\ \A kind \in Kinds :
              LET l == rank_blocks[r][kind]
              IN  /\ \A i, j \in DOMAIN l : (i < j /\ l[i] = None) => l[j] = None
                  /\ Cardinality({i \in DOMAIN l : l[i] = None}) <= 1

C8_Witness ==
    \E r \in Ranks :
        /\ pc[r] \in Padded
        /\ args.world_size = 2
        /\ Len(rank_blocks[r].missing) = 3
        /\ rank_blocks[r].missing[3] = None
        /\ Len(rank_blocks[r].existing) = 0

\* C9: every rank calls the collectives in the one order barrier, all-reduce
\* for existing, all-reduce for missing; each all-reduce hands every rank the
\* same value, the maximum of the ranks' list lengths; no state is reached in
\* which a rank has not returned and no rank can take a step (a rank waiting
\* forever in a collective); and every rank eventually returns.
CollectiveOrder == <<"barrier", "all_reduce_existing", "all_reduce_missing">>

C9_Lockstep ==
    /\ [](\A r \in Ranks :
            /\ Len(calls[r]) <= 3
            /\ calls[r] = SubSeq(CollectiveOrder, 1, Len(calls[r]))
            /\ pc[r] \in Padded => calls[r] = CollectiveOrder
            /\ pc[r] \in {"reduce_missing", "wait_missing", "pad"} \cup Padded =>
                  /\ \A q \in Ranks : Len(shard[q].existing) <= max_n[r].existing
                  /\ \E q \in Ranks : Len(shard[q].existing) = max_n[r].existing
            /\ pc[r] \in {"pad"} \cup Padded =>
                  /\ \A q \in Ranks : Len(shard[q].missing) <= max_n[r].missing
                  /\ \E q \in Ranks : Len(shard[q].missing) = max_n[r].missing)
    /\ []((\A r \in Ranks : pc[r] = "done") \/ ENABLED Next)
    /\ <>(\A r \in Ranks : pc[r] = "done")

C9_Witness ==
    /\ args.world_size >= 2
    /\ \A r \in Ranks : pc[r] = "done" /\ calls[r] = CollectiveOrder
    /\ removed # {}
    /\ Len(shard[0].existing) # Len(shard[1].existing)

\* The least integer not below num * n / den.
CeilFrac(fraction, n) ==
    CHOOSE m \in 0 .. n : m * fraction[2] >= fraction[1] * n
                          /\ (m - 1) * fraction[2] < fraction[1] * n

\* C10 as stated: the non-marker count of sample_blocks' result is
\* ceil(fraction * input_non_marker_count).
C10_CountOfNonMarkers ==
    \A r \in Ranks : \A kind \in Kinds : pc[r] = "done" =>
        Len(NonMarkers(sampled[r][kind]))
            = CeilFrac(args.fraction, Len(NonMarkers(rank_blocks[r][kind])))

\* C10 amended: the result of sample_blocks has length
\* ceil(fraction * len(input)), the markers of the input counted, and its
\* non-marker count is min(input_non_marker_count, ceil(fraction * len(input))),
\* whatever the shuffle.
C10_CountOfInputLength ==
    \A r \in Ranks : \A kind \in Kinds : pc[r] = "done" =>
        LET input == rank_blocks[r][kind]
            target == CeilFrac(args.fraction, Len(input))
        IN  /\ Len(sampled[r][kind]) = target
            /\ Len(NonMarkers(sampled[r][kind])) = Min(Len(NonMarkers(input)), target)

C10_Witness ==
    \E r \in Ranks :
        /\ pc[r] = "done"
        /\ args.fraction = <<1, 2>>
        /\ Len(rank_blocks[r].existing) = 3
        /\ Len(NonMarkers(rank_blocks[r].existing)) = 2
        /\ Len(NonMarkers(sampled[r].existing)) = 2

\* The block of the partition whose range contains idx.
ContainingBlock(blks, idx) ==
    CHOOSE b \in SeqRange(blks) : b.range[1] <= idx /\ idx < b.range[2]

\* The directory holds exactly the block files of the inputs, and the map was
\* built on it with the block size of the inputs.
MapOfAllBlocks ==
    /\ path_map.built
    /\ path_map.block_size = args.block_size
    /\ glob(fs) = BlockFiles(args.n_samples, args.block_size)

\* C11: a BlockPathMap built with the same block_size on the directory that
\* holds every block file maps every index of [0, n_samples) to the path of
\* the block whose range contains it, and its max_idx is n_samples.
C11_RoundTrip ==
    MapOfAllBlocks =>
        LET blks == AllBlocks(args.n_samples, args.block_size) IN
        /\ path_map.max_idx = args.n_samples
        /\ \A idx \in 0 .. (args.n_samples - 1) :
              LET got == getitem(path_map, idx) IN
              /\ ~got.raised
              /\ got.path = ContainingBlock(blks, idx).path
        /\ (lookup.done /\ lookup.idx \in 0 .. (args.n_samples - 1)) =>
              /\ ~lookup.raised
              /\ lookup.path = ContainingBlock(blks, lookup.idx).path

\* An index of the truncated last block of several has been looked up.
C11_Witness ==
    /\ MapOfAllBlocks
    /\ lookup.done
    /\ ~lookup.raised
    /\ args.n_samples > args.block_size
    /\ args.n_samples % args.block_size # 0
    /\ lookup.idx = args.n_samples - 1
    /\ lookup.path # getitem(path_map, 0).path

\* The ranges the names of the scanned files announce.
ScannedRanges == {<<StartIdx(p), EndIdx(p)>> : p \in glob(fs)}

\* C12: a lookup of an index that lies in the range of no scanned file
\* (beyond max_idx, negative, or of a block whose file is absent) raises
\* KeyError and returns no path.
C12_UncoveredIndexRaises ==
    (/\ path_map.built
     /\ path_map.block_size = args.block_size
     /\ lookup.done
     /\ \A rg \in ScannedRanges : ~(rg[1] <= lookup.idx /\ lookup.idx < rg[2]))
        => lookup.raised

\* The exponents of ten that the sample counts of the inputs need.
Exponents == 0 .. 8

FloorLog10(n) == CHOOSE k \in Exponents : 10 ^ k <= n /\ n < 10 ^ (k + 1)

CeilLog10(n) == CHOOSE k \in Exponents : 10 ^ k >= n /\ (k = 0 \/ 10 ^ (k - 1) < n)

\* A path is two decimal strings of the given width, which read back as the
\* boundaries of the range, joined by "-" and followed by ".hdf5".
WellFormedPath(b, width) ==
    LET parts == split(splitext(b.path), "-") IN
    /\ b.path[Len(b.path)] = ".hdf5"
    /\ Len(parts) = 2
    /\ \A k \in 1 .. 2 :
          /\ IsDecimal(parts[k])
          /\ Len(parts[k]) = width
          /\ int(parts[k]) = b.range[k]

\* C13: every boundary of every block path is zero-padded to exactly
\* floor(log10(n_samples)) + 2 digits; the two are joined with "-" and the
\* extension is ".hdf5".
C13_WidthFloorLog10Plus2 ==
    \A r \in Ranks : \A k \in DOMAIN all_blocks[r] :
        WellFormedPath(all_blocks[r][k], FloorLog10(args.n_samples) + 2)

\* C13, amended: the width is ceil(log10(n_samples)) + 1 digits, which is
\* floor(log10(n_samples)) + 2 unless n_samples is a power of ten.
C13_WidthCeilLog10Plus1 ==
    /\ \A r \in Ranks : \A k \in DOMAIN all_blocks[r] :
          WellFormedPath(all_blocks[r][k], CeilLog10(args.n_samples) + 1)
    /\ (\A k \in Exponents : args.n_samples # 10 ^ k)
          => CeilLog10(args.n_samples) + 1 = FloorLog10(args.n_samples) + 2

\* A rank has built the block list of a sample count that is a power of ten
\* with two digits, and its boundaries take one or two digits.
C13_Witness ==
    \E r \in Ranks :
        /\ Len(all_blocks[r]) > 1
        /\ \E k \in Exponents : k > 0 /\ args.n_samples = 10 ^ k
        /\ CeilLog10(args.n_samples) + 1 # FloorLog10(args.n_samples) + 2

Paths(list) == [k \in DOMAIN list |-> list[k].path]

\* C14: the digit width is at least the number of decimal digits of every
\* boundary in 0 .. n_samples, distinct blocks have distinct paths, and the
\* lexicographic order of the file names is the numeric order of the start
\* indexes (so a sorted listing of the directory is in block order).
C14_WidthOrdersNames ==
    \A r \in Ranks :
        all_blocks[r] # <<>> =>
            LET blks == all_blocks[r]
                paths == Paths(blks)
            IN  /\ \A b \in 0 .. args.n_samples :
                      Len(Str(b)) <= n_digits(args.n_samples)
                /\ \A i, j \in DOMAIN blks :
                      /\ i # j => paths[i] # paths[j]
                      /\ LexLess(paths[i], paths[j])
                            <=> blks[i].range[1] < blks[j].range[1]
                /\ sorted(all_block_path_set(blks)) = paths

\* A rank has named several blocks whose boundaries differ in their number
\* of digits.
C14_Witness ==
    \E r \in Ranks :
        /\ Len(all_blocks[r]) > 2
        /\ Len(Str(all_blocks[r][1].range[2])) < Len(Str(args.n_samples))

\* C15: no rank has returned from get_blocks_by_rank (nor passed its first
\* all-reduce) before every rank has collected its two global lists; so,
\* whatever files the returned ranks create, the ranks that have collected
\* hold the same global lists and the ranks that have returned report the
\* same n_existing_world and n_missing_world.
C15_CollectionBeforeReturn ==
    /\ \A r \in Ranks :
          pc[r] \in {"reduce_missing", "wait_missing", "pad", "sample", "done"}
              => \A q \in Ranks : pc[q] \in Collected
    /\ created # {} => \A q \in Ranks : pc[q] \in Collected
    /\ \A r, q \in Ranks :
          /\ (pc[r] \in Collected /\ pc[q] \in Collected) => blocks[r] = blocks[q]
          /\ (pc[r] \in Padded /\ pc[q] \in Padded) =>
                /\ rank_blocks[r].n_existing_world = rank_blocks[q].n_existing_world
                /\ rank_blocks[r].n_missing_world = rank_blocks[q].n_missing_world

\* A returned rank has created a file of its shard while another rank is
\* still inside get_blocks_by_rank, its global lists collected.
C15_Witness ==
    /\ created # {}
    /\ \E r, q \in Ranks :
          /\ pc[r] \in Padded
          /\ pc[q] \in Collected \ Padded
          /\ blocks[q] = blocks[r]
          /\ \E b \in SeqRange(blocks[q].missing) : b.path \in created

\* The block files of the directory that open and pass validate.
ValidFiles(files) ==
    {p \in files \cap BlockFiles(args.n_samples, args.block_size) :
        p \notin unopenable /\ p \notin invalid}

\* C16: get_blocks removes only block files whose open or validation failed,
\* and only on rank 0 during its cleanup; a block file that opens and passes
\* validate stays in the directory and is in existing on every rank; no step
\* of the call adds a file to the directory.
C16_OnlyCorruptFilesRemoved ==
    /\ [](/\ removed \subseteq (unopenable \cup invalid)
          /\ removed \subseteq BlockFiles(args.n_samples, args.block_size)
          /\ ValidFiles(fs \cup removed) \subseteq fs
          /\ \A r \in Ranks :
                pc[r] \in Collected =>
                    ValidFiles(fs \cup removed) \subseteq
                        {b.path : b \in SeqRange(blocks[r].existing)})
    /\ [][/\ fs' \subseteq fs
          /\ \A p \in fs \ fs' : p \in unopenable \cup invalid
          /\ fs' # fs =>
                /\ pc[0] \in {"loop", "validate"}
                /\ \A r \in Ranks \ {0} : pc'[r] = pc[r]
                /\ \A r \in Ranks \ {0} : pc[r] \notin AfterBarrier]_vars

\* Rank 0 has removed a corrupt file and kept a valid one, and another rank
\* has collected the valid one.
C16_Witness ==
    /\ removed # {}
    /\ removed \cap fs = {}
    /\ \E r \in Ranks \ {0} :
          /\ pc[r] \in Collected
          /\ ValidFiles(fs) # {}
          /\ \E b \in SeqRange(blocks[r].existing) : b.path \in ValidFiles(fs)

\* The handles that are open: returned by h5py.File and not closed since.
OpenHandles == SubSeq(opened, Len(closed) + 1, Len(opened))

\* C17: every handle rank 0 opens is closed exactly once, whether validate
\* returned or raised, before the next file is opened and before rank 0
\* enters the barrier: at most one handle is open at any time, and none is
\* open outside the validation of one file.
C17_HandlesClosed ==
    /\ Len(closed) <= Len(opened)
    /\ closed = SubSeq(opened, 1, Len(closed))
    /\ \A i, j \in DOMAIN opened : opened[i] = opened[j] => i = j
    /\ Len(OpenHandles) <= 1
    /\ pc[0] \in {"validate", "close"} => OpenHandles = <<f>>
    /\ pc[0] \notin {"validate", "close"} => (OpenHandles = <<>> /\ f = NoHandle)
    /\ \A r \in Ranks : pc[r] \in AfterBarrier => closed = opened

\* Rank 0 is past the barrier after closing the handle of a file on which
\* validate raised and the handle of a file on which it returned.
C17_Witness ==
    /\ pc[0] \in AfterBarrier
    /\ \E i, j \in DOMAIN closed :
          /\ closed[i] \in invalid
          /\ closed[j] \notin invalid

\* C18: when get_sampled_blocks_by_rank has returned, each of the rank's two
\* lists has length ceil(fraction * ceil(n_world / W)), n_world being the
\* world count of its kind, so the lengths agree across the ranks; the
\* non-marker entries of a sampled list are distinct blocks of the rank's
\* shard; n_existing_world and n_missing_world are as get_blocks_by_rank
\* set them.
C18_SampledLockstep ==
    \A r \in Ranks : pc[r] = "done" =>
        /\ sampled[r].n_existing_world = rank_blocks[r].n_existing_world
        /\ sampled[r].n_missing_world = rank_blocks[r].n_missing_world
        /\ sampled[r].n_existing_world = Len(blocks[r].existing)
        /\ sampled[r].n_missing_world = Len(blocks[r].missing)
        /\ \A kind \in Kinds :
              LET n_world == IF kind = "existing" THEN sampled[r].n_existing_world
                             ELSE sampled[r].n_missing_world
                  out == sampled[r][kind]
              IN  /\ Len(out) = CeilFrac(args.fraction,
                                         CeilDiv(n_world, args.world_size))
                  /\ \A i, j \in DOMAIN out :
                        (out[i] # None /\ out[i] = out[j]) => i = j
                  /\ SeqRange(NonMarkers(out)) \subseteq SeqRange(shard[r][kind])
                  /\ \A q \in Ranks :
                        pc[q] = "done" => Len(sampled[q][kind]) = Len(out)

\* Two ranks have returned samples of a fraction below one from shards of
\* different sizes, one of the samples holding two blocks.
C18_Witness ==
    /\ args.fraction[1] < args.fraction[2]
    /\ \E r, q \in Ranks :
          /\ pc[r] = "done"
          /\ pc[q] = "done"
          /\ Len(shard[r].existing) > Len(shard[q].existing)
          /\ Len(NonMarkers(sampled[r].existing)) > 1
          /\ Len(sampled[q].existing) = Len(sampled[r].existing)

\* C19: in a call that follows another, validate deciding as before and
\* nobody else writing, no file is removed and every rank gets the existing
\* and missing lists the call before gave it.
C19_Idempotent ==
    call > 1 =>
        /\ prev.returned
        /\ removed = {}
        /\ fs = prev.fs
        /\ \A r \in Ranks : pc[r] \in Collected => blocks[r] = prev.blocks[r]

\* The first call removed a corrupt file and left a valid one; every rank
\* has collected its lists in the second call, rank 0 after opening the
\* valid file again.
C19_Witness ==
    /\ call = 2
    /\ prev.returned
    /\ prev.removed # {}
    /\ closed # <<>>
    /\ args.world_size > 1
    /\ \A r \in Ranks :
          /\ pc[r] \in Collected
          /\ blocks[r].existing # <<>>
          /\ blocks[r].missing # <<>>

====
